---- MODULE Spec2Model ----
(***************************************************************************)
(* A model of the CLVisc OpenCL wrapper                                    *)
(*   src/external_packages/clvisc_wrapper/opencl_backend.cc                *)
(*   src/external_packages/clvisc_wrapper/include/opencl_backend.h         *)
(*                                                                         *)
(* Two objects are modelled.                                               *)
(*   CompileOption : the std::stringstream opt (its text and its number    *)
(*       formatting state) and the operations that write to it.            *)
(*       Text is a sequence of one-character strings.                      *)
(*   OpenclBackend : the constructor (device type selection,               *)
(*       CreateContext_, device selection, queue creation) and             *)
(*       BuildProgram, run against an enumerated OpenCL environment        *)
(*       (platforms, their devices, kernel files).                         *)
(*                                                                         *)
(* Bit fields (cl_device_type, cl_int) are sets of bit positions, so that  *)
(* the 32 and 64 bit widths of the C types are kept exactly.               *)
(***************************************************************************)
EXTENDS Integers, Sequences, FiniteSets, TLC

VARIABLES
    \* ---- CompileOption ----
    optState,       \* "none" before a constructor ran, "ready" after
    opt,            \* the text held by the stringstream opt
    precision,      \* opt.precision()
    floatfield,     \* opt.flags() & floatfield: "general" or "fixed"
    ctorArgs,       \* how the object was constructed
    ncalls,         \* number of member calls made on the object
    lastCall,       \* the last member call, with the text it found
    \* ---- OpenCL environment ----
    platforms,      \* what cl::Platform::get enumerates: Seq(Seq(device type))
    \* ---- OpenclBackend ----
    pc,             \* position of the constructor / state of the process
    argName,        \* constructor argument device_type (a string)
    device_type_,   \* cl_int device_type_ : set of bits 0..31
    device_id_,     \* cl_int device_id_
    ctxArg,         \* <<the argument CreateContext_ was called with>>, or <<>>
    context_,       \* cl::Context context_
    devices_,       \* std::vector<cl::Device> devices_
    device_,        \* cl::Device device_
    queue_,         \* cl::CommandQueue queue_
    cerr,           \* what was written to std::cerr, one entry per message
    cout,           \* what DeviceInfo wrote to std::cout, one entry per device
    exitStatus,     \* <<the argument of exit()>>, or <<>> while running
    nbuilds,        \* number of BuildProgram calls made
    lastBuild       \* the last BuildProgram call and how it ended

optVars == <<optState, opt, precision, floatfield, ctorArgs, ncalls, lastCall>>
backendVars == <<platforms, pc, argName, device_type_, device_id_, ctxArg,
                 context_, devices_, device_, queue_, cerr, cout, exitStatus,
                 nbuilds, lastBuild>>
vars == <<optVars, backendVars>>

-----------------------------------------------------------------------------
(* Bounds of the model *)

\* member calls made on one CompileOption object
MaxCalls == 3
\* devices the environment holds, over all its platforms
MaxTotalDevices == 3
\* BuildProgram calls made on one backend
MaxBuilds == 2

-----------------------------------------------------------------------------
(* Text *)

S_D == <<"-", "D", " ">>
S_I == <<"-", "I", " ">>
S_SP == <<" ">>
S_EQ == <<"=">>
S_F_SP == <<"f", " ">>
USE_SINGLE_PRECISION ==
    <<"U","S","E","_","S","I","N","G","L","E","_",
      "P","R","E","C","I","S","I","O","N">>
CL_OPT_DISABLE ==
    <<"-","c","l","-","o","p","t","-","d","i","s","a","b","l","e">>

DigitChar(d) == <<"0","1","2","3","4","5","6","7","8","9">>[d + 1]

RECURSIVE NatDigits(_)
\* the decimal digits of a natural number, most significant first
NatDigits(n) == IF n < 10 THEN <<n>> ELSE Append(NatDigits(n \div 10), n % 10)

RECURSIVE DigitsText(_)
DigitsText(ds) ==
    IF ds = <<>> THEN <<>>
    ELSE <<DigitChar(Head(ds))>> \o DigitsText(Tail(ds))

RECURSIVE Zeros(_)
Zeros(n) == IF n <= 0 THEN <<>> ELSE <<0>> \o Zeros(n - 1)

RECURSIVE StripZeros(_)
\* a digit sequence without its trailing zeros
StripZeros(ds) ==
    IF ds = <<>> THEN <<>>
    ELSE IF ds[Len(ds)] = 0 THEN StripZeros(SubSeq(ds, 1, Len(ds) - 1))
    ELSE ds

RECURSIVE Inc(_)
\* a digit sequence plus one in the last place: [digs, carry]
Inc(ds) ==
    IF ds = <<>> THEN [digs |-> <<>>, carry |-> TRUE]
    ELSE IF ds[Len(ds)] < 9
         THEN [digs |-> [ds EXCEPT ![Len(ds)] = @ + 1], carry |-> FALSE]
         ELSE LET r == Inc(SubSeq(ds, 1, Len(ds) - 1))
              IN  [digs |-> Append(r.digs, 0), carry |-> r.carry]

\* ds cut or zero-padded to n digits
Pad(ds, n) ==
    IF Len(ds) >= n THEN SubSeq(ds, 1, n) ELSE ds \o Zeros(n - Len(ds))

\* ds rounded to its first n digits (n >= 0), to nearest, ties to even:
\* [digs (n digits), carry]
Round(ds, n) ==
    LET kept == Pad(ds, n)
        rest == IF Len(ds) > n THEN SubSeq(ds, n + 1, Len(ds)) ELSE <<>>
        tie  == rest # <<>> /\ rest[1] = 5 /\ StripZeros(Tail(rest)) = <<>>
        up   == /\ rest # <<>>
                /\ \/ rest[1] > 5
                   \/ rest[1] = 5 /\ ~tie
                   \/ tie /\ n > 0 /\ kept[n] % 2 = 1
    IN  IF up THEN Inc(kept) ELSE [digs |-> kept, carry |-> FALSE]

-----------------------------------------------------------------------------
(* Number formatting of std::ostream                                        *)
(*                                                                          *)
(* A floating point value is its exact decimal expansion                    *)
(*   (-1)^neg * 0.d1 d2 d3 ... * 10^exp      (d1 # 0, no trailing zeros;    *)
(*   digs = <<>> is zero)                                                   *)
(* which every float and double has.                                        *)

\* operator<<(double) with floatfield == fixed: as printf("%.*f", prec, v)
FormatFixed(v, prec) ==
    LET D     == Zeros(-v.exp) \o v.digs
        E     == IF v.exp > 0 THEN v.exp ELSE 0
        r     == Round(D, E + prec)
        all   == IF r.carry THEN <<1>> \o r.digs ELSE r.digs
        E2    == IF r.carry THEN E + 1 ELSE E
        ipart == IF E2 = 0 THEN <<0>> ELSE SubSeq(all, 1, E2)
        fpart == SubSeq(all, E2 + 1, E2 + prec)
    IN  (IF v.neg THEN <<"-">> ELSE <<>>)
        \o DigitsText(ipart)
        \o (IF prec > 0 THEN <<".">> \o DigitsText(fpart) ELSE <<>>)

\* operator<<(double) with floatfield unset: as printf("%.*g", prec, v)
FormatGeneral(v, prec) ==
    LET P    == IF prec = 0 THEN 1 ELSE prec
        r    == Round(v.digs, P)
        ds   == IF r.carry THEN <<1>> \o Zeros(P - 1) ELSE r.digs
        X    == v.exp - 1 + (IF r.carry THEN 1 ELSE 0)
        sign == IF v.neg THEN <<"-">> ELSE <<>>
        absX == IF X < 0 THEN -X ELSE X
        sci  == LET m == StripZeros(Tail(ds))
                IN  <<DigitChar(ds[1])>>
                    \o (IF m = <<>> THEN <<>> ELSE <<".">> \o DigitsText(m))
                    \o <<"e", IF X < 0 THEN "-" ELSE "+">>
                    \o (IF absX < 10 THEN <<"0">> ELSE <<>>)
                    \o DigitsText(NatDigits(absX))
        fix  == LET ipart == IF X >= 0 THEN SubSeq(ds, 1, X + 1) ELSE <<0>>
                    f == IF X >= 0 THEN StripZeros(SubSeq(ds, X + 2, P))
                         ELSE StripZeros(Zeros(-X - 1) \o ds)
                IN  DigitsText(ipart)
                    \o (IF f = <<>> THEN <<>> ELSE <<".">> \o DigitsText(f))
    IN  IF v.digs = <<>> THEN sign \o <<"0">>
        ELSE IF X < -4 \/ X >= P THEN sign \o sci
        ELSE sign \o fix

\* operator<<(double) under the stream's formatting state
FormatDouble(v, prec, field) ==
    IF field = "fixed" THEN FormatFixed(v, prec) ELSE FormatGeneral(v, prec)

\* operator<<(int): precision and floatfield play no part
FormatInt(n) ==
    IF n < 0 THEN <<"-">> \o DigitsText(NatDigits(-n))
    ELSE DigitsText(NatDigits(n))

-----------------------------------------------------------------------------
(* Arguments the callers are modelled to pass *)

\* double 0.33, exactly
D_0_33 ==
    [neg |-> FALSE, exp |-> 0,
     digs |-> <<3,3,0,0,0,0,0,0,0,0,0,0,0,0,0,0,1,5,5,4,3,1,2,2,3,4,4,7,5,2,
                1,9,1,5,6,5,9,3,0,8,4,3,3,5,3,2,7,1,4,8,4,3,7,5>>]
\* double 0.1234567, exactly
D_0_1234567 ==
    [neg |-> FALSE, exp |-> 0,
     digs |-> <<1,2,3,4,5,6,7,0,0,0,0,0,0,0,0,0,0,2,5,4,8,3,6,1,5,2,1,8,0,3,
                5,9,9,3,1,6,6,2,6,7,8,7,1,8,5,6,6,8,9,4,5,3,1,2,5>>]
\* double -1.5
D_m1_5 == [neg |-> TRUE, exp |-> 1, digs |-> <<1,5>>]
\* double 1234567.0
D_1234567 == [neg |-> FALSE, exp |-> 7, digs |-> <<1,2,3,4,5,6,7>>]
\* float 0.33f, exactly
F_0_33 ==
    [neg |-> FALSE, exp |-> 0,
     digs |-> <<3,3,0,0,0,0,0,1,3,1,1,3,0,2,1,8,5,0,5,8,5,9,3,7,5>>]
\* float 0.5f
F_0_5 == [neg |-> FALSE, exp |-> 0, digs |-> <<5>>]

DoubleValues == {D_0_33, D_0_1234567, D_m1_5, D_1234567}
FloatValues == {F_0_33, F_0_5}
IntValues == {-7, 0, 42}
Keys == {<<"N","X">>, <<"d","t">>}
Definitions == {<<"E","O","S","_","T","A","B","L","E">>, USE_SINGLE_PRECISION}
Paths == {<<"/","o","p","t","/","c","l">>}

-----------------------------------------------------------------------------
(* CompileOption *)

\* the text one CompileOption::Define call inserts into opt
DefineText(definition) == S_D \o definition \o S_SP

\* the text one CompileOption::KernelIncludePath call inserts into opt
KernelIncludePathText(abs_path) == S_I \o abs_path \o S_SP

\* the text one CompileOption::SetIntConst call inserts into opt
SetIntConstText(key, value) == S_D \o key \o S_EQ \o FormatInt(value) \o S_SP

\* the text one CompileOption::SetFloatConst call inserts into opt:
\* the value is written after setprecision(12) and fixed took effect
SetFloatConstText(key, value) ==
    S_D \o key \o S_EQ \o FormatDouble(value, 12, "fixed") \o S_F_SP

\* the text one CompileOption::SetDoubleConst call inserts into opt, under
\* the formatting state the stream is in
SetDoubleConstText(key, value, prec, field) ==
    S_D \o key \o S_EQ \o FormatDouble(value, prec, field) \o S_SP

\* the floating point value 0.0
Zero == [neg |-> FALSE, exp |-> 0, digs |-> <<>>]

\* a member call: its name, its text argument, its number argument (int
\* or floating point, the other left at zero) and the text it found in opt
NoCall == [op |-> "none", key |-> <<>>, int |-> 0, value |-> Zero,
           before |-> <<>>]

Called(op, key, int, value) ==
    [op |-> op, key |-> key, int |-> int, value |-> value, before |-> opt]

\* CompileOption::CompileOption()
CompileOption0 ==
    /\ optState = "none"
    /\ optState' = "ready"
    /\ opt' = DefineText(USE_SINGLE_PRECISION)
    /\ ctorArgs' = [default |-> TRUE, use_single_precision |-> TRUE,
                    optimize |-> TRUE]
    /\ UNCHANGED <<precision, floatfield, ncalls, lastCall>>
    /\ UNCHANGED backendVars

\* the text CompileOption::CompileOption(bool, bool) leaves in opt
CompileOption2Text(use_single_precision, optimize) ==
    (IF use_single_precision THEN DefineText(USE_SINGLE_PRECISION) ELSE <<>>)
    \o (IF ~optimize THEN DefineText(CL_OPT_DISABLE) ELSE <<>>)

\* CompileOption::CompileOption(bool use_single_precision, bool optimize)
CompileOption2(use_single_precision, optimize) ==
    /\ optState = "none"
    /\ optState' = "ready"
    /\ opt' = CompileOption2Text(use_single_precision, optimize)
    /\ ctorArgs' = [default |-> FALSE,
                    use_single_precision |-> use_single_precision,
                    optimize |-> optimize]
    /\ UNCHANGED <<precision, floatfield, ncalls, lastCall>>
    /\ UNCHANGED backendVars

CanCall == optState = "ready" /\ ncalls < MaxCalls

\* CompileOption::Define
Define(definition) ==
    /\ CanCall
    /\ opt' = opt \o DefineText(definition)
    /\ lastCall' = Called("Define", definition, 0, Zero)
    /\ ncalls' = ncalls + 1
    /\ UNCHANGED <<optState, precision, floatfield, ctorArgs>>
    /\ UNCHANGED backendVars

\* CompileOption::KernelIncludePath
KernelIncludePath(abs_path) ==
    /\ CanCall
    /\ opt' = opt \o KernelIncludePathText(abs_path)
    /\ lastCall' = Called("KernelIncludePath", abs_path, 0, Zero)
    /\ ncalls' = ncalls + 1
    /\ UNCHANGED <<optState, precision, floatfield, ctorArgs>>
    /\ UNCHANGED backendVars

\* CompileOption::SetIntConst
SetIntConst(key, value) ==
    /\ CanCall
    /\ opt' = opt \o SetIntConstText(key, value)
    /\ lastCall' = Called("SetIntConst", key, value, Zero)
    /\ ncalls' = ncalls + 1
    /\ UNCHANGED <<optState, precision, floatfield, ctorArgs>>
    /\ UNCHANGED backendVars

\* CompileOption::SetFloatConst: opt.precision(12), setprecision(12) and
\* std::fixed stay set on opt after the call
SetFloatConst(key, value) ==
    /\ CanCall
    /\ precision' = 12
    /\ floatfield' = "fixed"
    /\ opt' = opt \o SetFloatConstText(key, value)
    /\ lastCall' = Called("SetFloatConst", key, 0, value)
    /\ ncalls' = ncalls + 1
    /\ UNCHANGED <<optState, ctorArgs>>
    /\ UNCHANGED backendVars

\* CompileOption::SetDoubleConst
SetDoubleConst(key, value) ==
    /\ CanCall
    /\ opt' = opt \o SetDoubleConstText(key, value, precision, floatfield)
    /\ lastCall' = Called("SetDoubleConst", key, 0, value)
    /\ ncalls' = ncalls + 1
    /\ UNCHANGED <<optState, precision, floatfield, ctorArgs>>
    /\ UNCHANGED backendVars

-----------------------------------------------------------------------------
(* OpenCL bit fields                                                        *)
(*                                                                          *)
(* cl_device_type is cl_bitfield, an unsigned 64 bit integer; cl_int is a   *)
(* signed 32 bit integer.  A value of either is the set of its one bits.    *)
(* The CL_DEVICE_TYPE_* values are those of OpenCL's cl.h.                  *)

Bits32 == 0..31

\* (1 << 0)
CL_DEVICE_TYPE_DEFAULT == {0}
\* (1 << 1)
CL_DEVICE_TYPE_CPU == {1}
\* (1 << 2)
CL_DEVICE_TYPE_GPU == {2}
\* (1 << 3)
CL_DEVICE_TYPE_ACCELERATOR == {3}
\* 0xFFFFFFFF
CL_DEVICE_TYPE_ALL == Bits32

\* the conversion of a cl_device_type constant to cl_int (device_type_ is
\* declared cl_int): the low 32 bits are kept, bit 31 is the sign
ToClInt(bits) == bits \cap Bits32

\* the conversion of a cl_int to cl_device_type (the usual arithmetic
\* conversions of ==, and the parameter of cl::Context): sign extension
ToDeviceType(i) == IF 31 \in i THEN i \cup (32..63) ELSE i

RECURSIVE SumPow2(_)
SumPow2(bs) ==
    IF bs = {} THEN 0
    ELSE LET b == CHOOSE x \in bs : TRUE IN 2^b + SumPow2(bs \ {b})

\* the number a cl_int stands for (two's complement), as operator<< prints it
ClIntValue(i) ==
    IF 31 \in i THEN -1 - SumPow2((0..30) \ i) ELSE SumPow2(i)

-----------------------------------------------------------------------------
(* The OpenCL environment                                                   *)
(*                                                                          *)
(* The native calls the wrapper makes are taken to return normally:         *)
(* cl::Platform::get yields the platforms (possibly none), getDevices the   *)
(* devices of a platform (at least one), and a context created from a type  *)
(* holds the devices of the platform that the type, as a mask, selects.     *)
(* program.build is the one call whose failure the wrapper handles.         *)

\* what getInfo<CL_DEVICE_TYPE>() can report for a device
DeviceTypes ==
    { CL_DEVICE_TYPE_CPU, CL_DEVICE_TYPE_GPU, CL_DEVICE_TYPE_ACCELERATOR,
      CL_DEVICE_TYPE_CPU \cup CL_DEVICE_TYPE_DEFAULT }

\* the device lists of one platform: 1..n devices
DeviceLists(n) == UNION { [1..k -> DeviceTypes] : k \in 1..n }

RECURSIVE PlatformLists(_)
\* the platform lists that hold at most n devices in all
PlatformLists(n) ==
    {<<>>} \cup
    UNION { { <<d>> \o rest : rest \in PlatformLists(n - Len(d)) } :
            d \in DeviceLists(n) }

\* the kernel files BuildProgram is called with
Files == {"kernel.cl", "broken.cl", "missing.cl"}

\* whether the file can be opened, and what it holds
FileSystem(fname) ==
    CASE fname = "kernel.cl" -> [exists |-> TRUE, source |-> "valid"]
      [] fname = "broken.cl" -> [exists |-> TRUE, source |-> "invalid"]
      [] OTHER               -> [exists |-> FALSE, source |-> ""]

\* whether program.build can succeed on a source (the device compiler
\* decides; for an empty source either way)
BuildOutcomes(source) ==
    CASE source = "valid"   -> {TRUE}
      [] source = "invalid" -> {FALSE}
      [] OTHER              -> BOOLEAN

\* what flowing off the end of a function that returns a value can do
\* (undefined behaviour): hand the caller an indeterminate cl::Program, or
\* end the process
FallOffEnd == {"returned_indeterminate", "crashed"}

DeviceTypeNames == {"cpu", "CPU", "gpu", "GPU", "Gpu", "", "all"}
DeviceIds == {-1, 0, 1}

NoContext == [platform |-> 0, type |-> {}]
NoDevice == [platform |-> 0, index |-> 0, type |-> {}]
NoQueue == [context |-> NoContext, device |-> NoDevice, profiling |-> FALSE]
NoName == "none"
\* one message on std::cerr: its fixed text, and the file name, the number
\* or the build log (of a program source) written with it
CerrMsg(text, fname, num, log) ==
    [text |-> text, fname |-> fname, num |-> num, log |-> log]

NoBuild == [fname |-> "", opened |-> FALSE, source |-> "", created |-> FALSE,
            options |-> <<>>, built |-> FALSE, end |-> "none"]

-----------------------------------------------------------------------------
(* OpenclBackend *)

\* a variant that compares the name without regard to case
SelectDeviceType_AnyCase(device_type) ==
    IF device_type \in {"cpu", "CPU", "Cpu"}
    THEN ToClInt(CL_DEVICE_TYPE_CPU)
    ELSE IF device_type \in {"gpu", "GPU", "Gpu"}
    THEN ToClInt(CL_DEVICE_TYPE_GPU)
    ELSE ToClInt(CL_DEVICE_TYPE_ALL)

\* the device type the constructor selects by name
SelectDeviceType(device_type) ==
    IF device_type = "cpu" \/ device_type = "CPU"
    THEN ToClInt(CL_DEVICE_TYPE_CPU)
    ELSE IF device_type = "gpu" \/ device_type = "GPU"
    THEN ToClInt(CL_DEVICE_TYPE_GPU)
    ELSE ToClInt(CL_DEVICE_TYPE_ALL)

\* the first part of the constructor: device_type_ and device_id_
OpenclBackend(device_type, device_id) ==
    /\ pc = "start"
    /\ argName' = device_type
    /\ device_type_' = SelectDeviceType(device_type)
    /\ device_id_' = device_id
    /\ pc' = "create_context"
    /\ UNCHANGED <<platforms, ctxArg, context_, devices_, device_, queue_,
                   cerr, cout, exitStatus, nbuilds, lastBuild>>
    /\ UNCHANGED optVars

\* supportDevices.at(j).getInfo<CL_DEVICE_TYPE>() == device_type
TypeMatches(reported, device_type) == reported = ToDeviceType(device_type)

\* the platforms, in order, that have a device for which the test holds
MatchingPlatforms(ps, device_type) ==
    { i \in 1..Len(ps) :
        \E j \in 1..Len(ps[i]) : TypeMatches(ps[i][j], device_type) }

\* a variant that, finding no device of the type, falls back to the first
\* platform instead of exiting
CreateContext_FirstPlatform(ps, device_type) ==
    IF Len(ps) = 0
    THEN [kind |-> "exit", status |-> -1,
          msg |-> CerrMsg("No platform found, install CUDA or AMD SDK first\n",
                          "", 0, ""),
          context |-> NoContext]
    ELSE LET found == MatchingPlatforms(ps, device_type)
             i == IF found # {}
                  THEN CHOOSE x \in found : \A y \in found : x <= y
                  ELSE 1
         IN  [kind |-> "return", status |-> 0, msg |-> CerrMsg("", "", 0, ""),
              context |-> [platform |-> i,
                           type |-> ToDeviceType(device_type)]]

\* OpenclBackend::CreateContext_: what the call ends in
CreateContext_(ps, device_type) ==
    IF Len(ps) = 0
    THEN [kind |-> "exit", status |-> -1,
          msg |-> CerrMsg("No platform found, install CUDA or AMD SDK first\n",
                          "", 0, ""),
          context |-> NoContext]
    ELSE LET found == MatchingPlatforms(ps, device_type)
         IN  IF found # {}
             THEN LET i == CHOOSE x \in found : \A y \in found : x <= y
                  IN  [kind |-> "return", status |-> 0,
                       msg |-> CerrMsg("", "", 0, ""),
                       context |-> [platform |-> i,
                                    type |-> ToDeviceType(device_type)]]
             ELSE [kind |-> "exit", status |-> -1,
                   msg |-> CerrMsg("no platform support device type<num>\n",
                                   "", ClIntValue(device_type), ""),
                   context |-> NoContext]

\* context_ = CreateContext_(device_type_)
CreateContext ==
    /\ pc = "create_context"
    /\ ctxArg' = <<device_type_>>
    /\ LET r == CreateContext_(platforms, device_type_)
       IN  IF r.kind = "return"
           THEN /\ context_' = r.context
                /\ pc' = "select_device"
                /\ UNCHANGED <<cerr, exitStatus>>
           ELSE /\ cerr' = Append(cerr, r.msg)
                /\ exitStatus' = <<r.status>>
                /\ pc' = "exited"
                /\ UNCHANGED context_
    /\ UNCHANGED <<platforms, argName, device_type_, device_id_, devices_,
                   device_, queue_, cout, nbuilds, lastBuild>>
    /\ UNCHANGED optVars

RECURSIVE ContextDevicesFrom(_, _, _, _)
ContextDevicesFrom(ps, ctx, j, acc) ==
    IF j > Len(ps[ctx.platform]) THEN acc
    ELSE ContextDevicesFrom(ps, ctx, j + 1,
            IF ps[ctx.platform][j] \cap ctx.type # {}
            THEN Append(acc, [platform |-> ctx.platform, index |-> j,
                              type |-> ps[ctx.platform][j]])
            ELSE acc)

\* context_.getInfo<CL_CONTEXT_DEVICES>(): the devices of the context's
\* platform that its device type selects
ContextDevices(ps, ctx) == ContextDevicesFrom(ps, ctx, 1, <<>>)

\* device_id_ < 0 || device_id_ > num_of_devices-1, num_of_devices being an
\* unsigned size(): with no device, num_of_devices-1 is the largest size_t
DeviceIdOutOfRange(device_id, num_of_devices) ==
    device_id < 0 \/ (num_of_devices > 0 /\ device_id > num_of_devices - 1)

\* what DeviceInfo writes to std::cout: one block per device of devices_
DeviceInfo(devs) == [k \in 1..Len(devs) |-> [device_id |-> k - 1, device |-> devs[k]]]

\* devices_ = ...; the device_id_ check; device_ = devices_[device_id_]
SelectDevice ==
    /\ pc = "select_device"
    /\ LET devs == ContextDevices(platforms, context_)
       IN  /\ devices_' = devs
           /\ IF DeviceIdOutOfRange(device_id_, Len(devs))
              THEN /\ cout' = cout \o DeviceInfo(devs)
                   /\ pc' = "threw_out_of_range"
                   /\ UNCHANGED device_
              ELSE IF device_id_ + 1 \in 1..Len(devs)
              THEN /\ device_' = devs[device_id_ + 1]
                   /\ pc' = "create_queue"
                   /\ UNCHANGED cout
              ELSE \* devices_[device_id_] read past the end of an empty vector
                   /\ pc' = "undefined"
                   /\ UNCHANGED <<device_, cout>>
    /\ UNCHANGED <<platforms, argName, device_type_, device_id_, ctxArg,
                   context_, queue_, cerr, exitStatus, nbuilds, lastBuild>>
    /\ UNCHANGED optVars

\* queue_ = cl::CommandQueue(context_, device_, CL_QUEUE_PROFILING_ENABLE)
CreateQueue ==
    /\ pc = "create_queue"
    /\ queue_' = [context |-> context_, device |-> device_,
                  profiling |-> TRUE]
    /\ pc' = "constructed"
    /\ UNCHANGED <<platforms, argName, device_type_, device_id_, ctxArg,
                   context_, devices_, device_, cerr, cout, exitStatus,
                   nbuilds, lastBuild>>
    /\ UNCHANGED optVars

\* OpenclBackend::BuildProgram, whole: the file is read, a program is
\* created from what was read and built with the options' text
BuildProgram(fname) ==
    /\ pc = "constructed"
    /\ nbuilds < MaxBuilds
    /\ nbuilds' = nbuilds + 1
    /\ LET file    == FileSystem(fname)
           opened  == file.exists
           cerr1   == IF ~opened
                      THEN Append(cerr, CerrMsg("Open <fname> failed!\n",
                                                fname, 0, ""))
                      ELSE cerr
           \* an ifstream that is not open yields no character
           sprog   == IF opened THEN file.source ELSE ""
           program == [context |-> context_, source |-> sprog]
           call    == [fname |-> fname, opened |-> opened, source |-> sprog,
                       created |-> TRUE, options |-> opt,
                       built |-> FALSE, end |-> "none"]
       IN  \E ok \in BuildOutcomes(sprog) :
             IF ok
             THEN \* return program
                  /\ cerr' = cerr1
                  /\ lastBuild' = [call EXCEPT !.built = TRUE,
                                               !.end = "returned_program"]
                  /\ UNCHANGED pc
             ELSE \* catch (cl::Error &): the error and the build log are
                  \* printed, and control flows off the end of the function
                  /\ cerr' = Append(cerr1,
                         CerrMsg("<err.what()>(<err.err()>)\n<build log>",
                                 fname, 0, program.source))
                  /\ \E end \in FallOffEnd :
                        /\ lastBuild' = [call EXCEPT !.built = FALSE,
                                                     !.end = end]
                        /\ pc' = IF end = "crashed" THEN "crashed" ELSE pc
    /\ UNCHANGED <<platforms, argName, device_type_, device_id_, ctxArg,
                   context_, devices_, device_, queue_, cout, exitStatus>>
    /\ UNCHANGED optVars

-----------------------------------------------------------------------------
(* Specifications *)

NoCtor == [default |-> FALSE, use_single_precision |-> FALSE,
           optimize |-> FALSE]

\* a backend that was not constructed yet
BackendIdle ==
    /\ pc = "start"
    /\ argName = NoName
    /\ device_type_ = {}
    /\ device_id_ = 0
    /\ ctxArg = <<>>
    /\ context_ = NoContext
    /\ devices_ = <<>>
    /\ device_ = NoDevice
    /\ queue_ = NoQueue
    /\ cerr = <<>>
    /\ cout = <<>>
    /\ exitStatus = <<>>
    /\ nbuilds = 0
    /\ lastBuild = NoBuild

\* a std::stringstream as constructed: precision 6, floatfield unset
StreamFresh ==
    /\ precision = 6
    /\ floatfield = "general"
    /\ ncalls = 0
    /\ lastCall = NoCall

\* CompileOption alone: no object yet, no OpenCL environment
InitOption ==
    /\ optState = "none"
    /\ opt = <<>>
    /\ ctorArgs = NoCtor
    /\ StreamFresh
    /\ platforms = <<>>
    /\ BackendIdle

NextOption ==
    \/ CompileOption0
    \/ \E use_single_precision \in BOOLEAN, optimize \in BOOLEAN :
          CompileOption2(use_single_precision, optimize)
    \/ \E definition \in Definitions : Define(definition)
    \/ \E abs_path \in Paths : KernelIncludePath(abs_path)
    \/ \E key \in Keys, value \in IntValues : SetIntConst(key, value)
    \/ \E key \in Keys, value \in FloatValues : SetFloatConst(key, value)
    \/ \E key \in Keys, value \in DoubleValues : SetDoubleConst(key, value)

SpecOption == InitOption /\ [][NextOption]_vars

\* OpenclBackend in an environment, with a default-constructed CompileOption
\* (as the members opts_ and backend_ of CLIdeal)
InitBackend ==
    /\ optState = "ready"
    /\ opt = DefineText(USE_SINGLE_PRECISION)
    /\ ctorArgs = [default |-> TRUE, use_single_precision |-> TRUE,
                   optimize |-> TRUE]
    /\ StreamFresh
    /\ platforms \in PlatformLists(MaxTotalDevices)
    /\ BackendIdle

NextBackend ==
    \/ \E device_type \in DeviceTypeNames, device_id \in DeviceIds :
          OpenclBackend(device_type, device_id)
    \/ CreateContext
    \/ SelectDevice
    \/ CreateQueue
    \/ \E fname \in Files : BuildProgram(fname)

SpecBackend == InitBackend /\ [][NextBackend]_vars

-----------------------------------------------------------------------------
(* Properties *)

\* whether sub occurs in text
Contains(text, sub) ==
    \E i \in 1..(Len(text) - Len(sub) + 1) :
        SubSeq(text, i, i + Len(sub) - 1) = sub

RECURSIVE WordsFrom(_, _, _)
WordsFrom(text, word, acc) ==
    IF text = <<>>
    THEN IF word = <<>> THEN acc ELSE Append(acc, word)
    ELSE IF Head(text) = " "
    THEN WordsFrom(Tail(text), <<>>,
                   IF word = <<>> THEN acc ELSE Append(acc, word))
    ELSE WordsFrom(Tail(text), Append(word, Head(text)), acc)

\* the space-separated words of an option string, as the OpenCL compiler
\* reads them
Words(text) == WordsFrom(text, <<>>, <<>>)

\* flag is a word of the option string that is not the argument of a -D
StandaloneOption(text, flag) ==
    LET w == Words(text)
    IN  \E i \in 1..Len(w) :
            /\ w[i] = flag
            /\ (i = 1 \/ w[i - 1] # <<"-", "D">>)

\* some device of some platform is of the type, taken as a cl_device_type mask
HasDeviceOfType(ps, device_type) ==
    \E i \in 1..Len(ps) : \E j \in 1..Len(ps[i]) :
        ps[i][j] \cap ToDeviceType(device_type) # {}

BuildFailed == lastBuild.end # "none" /\ ~lastBuild.built
BuildReturned == lastBuild.end \in {"returned_program", "returned_indeterminate"}
BuildLogPrinted ==
    /\ cerr # <<>>
    /\ cerr[Len(cerr)] =
          CerrMsg("<err.what()>(<err.err()>)\n<build log>",
                  lastBuild.fname, 0, lastBuild.source)

(* C1: when program.build fails inside BuildProgram, the error text, the   *)
(* error code and the build log are printed and the process terminates:    *)
(* BuildProgram does not return to its caller on the failure path.         *)
C1_BuildFailureTerminates ==
    BuildFailed =>
        /\ BuildLogPrinted
        /\ ~BuildReturned
        /\ pc # "constructed"

(* C2: when the kernel file cannot be opened, BuildProgram prints          *)
(* "Open <fname> failed!" and the process terminates: no program is        *)
(* created or built from the empty source, none is returned.               *)
C2_OpenFailureTerminates ==
    (lastBuild.end # "none" /\ ~lastBuild.opened) =>
        /\ \E k \in 1..Len(cerr) :
              cerr[k] = CerrMsg("Open <fname> failed!\n", lastBuild.fname, 0, "")
        /\ ~lastBuild.created
        /\ ~BuildReturned
        /\ pc # "constructed"

(* C3: CreateContext_ returns a context only when some enumerated platform *)
(* has a device of the requested type; with no platform, or with no device *)
(* of the requested type on any platform, a diagnostic is printed and the  *)
(* process exits with status -1, so the constructor never goes on to       *)
(* device selection or queue creation without a context.                   *)
C3_ContextOrExit ==
    /\ context_ # NoContext =>
          /\ ctxArg # <<>>
          /\ HasDeviceOfType(platforms, ctxArg[1])
    /\ (ctxArg # <<>> /\ ~HasDeviceOfType(platforms, ctxArg[1])) =>
          /\ pc = "exited"
          /\ exitStatus = <<-1>>
          /\ Len(cerr) = 1
          /\ context_ = NoContext
    /\ pc \in {"select_device", "create_queue", "constructed",
               "threw_out_of_range", "undefined", "crashed"} =>
          context_ # NoContext
    /\ (devices_ # <<>> \/ device_ # NoDevice \/ queue_ # NoQueue) =>
          context_ # NoContext
    /\ pc = "exited" => (devices_ = <<>> /\ device_ = NoDevice /\ queue_ = NoQueue)

\* the process exited because no platform has a CPU, though platforms exist
C3_Witness ==
    /\ pc = "exited"
    /\ platforms # <<>>
    /\ ctxArg = <<CL_DEVICE_TYPE_CPU>>
    /\ ~HasDeviceOfType(platforms, CL_DEVICE_TYPE_CPU)
    /\ exitStatus = <<-1>>

(* C4: the constructor selects the device type by name: "cpu" and "CPU"    *)
(* select CL_DEVICE_TYPE_CPU, "gpu" and "GPU" select CL_DEVICE_TYPE_GPU,   *)
(* every other string (mixed case, the empty string) selects               *)
(* CL_DEVICE_TYPE_ALL; the selected type is the one CreateContext_ gets.   *)
C4_DeviceTypeByName ==
    pc # "start" =>
        /\ argName \in {"cpu", "CPU"} => device_type_ = CL_DEVICE_TYPE_CPU
        /\ argName \in {"gpu", "GPU"} => device_type_ = CL_DEVICE_TYPE_GPU
        /\ argName \notin {"cpu", "CPU", "gpu", "GPU"} =>
              device_type_ = CL_DEVICE_TYPE_ALL
        /\ pc # "create_context" => ctxArg = <<device_type_>>

\* a mixed-case name was given and CreateContext_ was called with ALL
C4_Witness ==
    /\ argName = "Gpu"
    /\ pc \notin {"start", "create_context"}
    /\ ctxArg = <<CL_DEVICE_TYPE_ALL>>

(* C5: for every device type the constructor can request (CPU, GPU, ALL),  *)
(* if some platform has a device covered by that type (any device when the *)
(* type is ALL), CreateContext_ returns a context instead of taking the    *)
(* "no platform support device type" exit.                                 *)
C5_ContextWhenSupported ==
    (ctxArg # <<>> /\ HasDeviceOfType(platforms, ctxArg[1])) =>
        /\ pc # "exited"
        /\ context_ # NoContext

(* C6: CompileOption(use_single_precision, optimize) with optimize = false *)
(* leaves -cl-opt-disable in the option string as a standalone option (not *)
(* as the argument of -D), with optimize = true the string has no such     *)
(* flag; the string contains "-D USE_SINGLE_PRECISION" exactly when        *)
(* use_single_precision is true, and always after the default constructor. *)
C6_OptimizeFalseSetsFlag ==
    (optState = "ready" /\ ncalls = 0) =>
        /\ ctorArgs.default => Contains(opt, S_D \o USE_SINGLE_PRECISION)
        /\ ~ctorArgs.default =>
              /\ ctorArgs.use_single_precision <=>
                    Contains(opt, S_D \o USE_SINGLE_PRECISION)
              /\ ctorArgs.optimize => ~Contains(opt, CL_OPT_DISABLE)
              /\ ~ctorArgs.optimize => StandaloneOption(opt, CL_OPT_DISABLE)

(* C7: SetDoubleConst(key, v) appends the same text "-D key=<v> ", v       *)
(* written as a fresh stream writes it ("0.33" for 0.33), whatever was     *)
(* called on the object before; SetIntConst likewise.  An earlier          *)
(* SetFloatConst does not change how later values are written.             *)
C7_DoubleTextIndependentOfHistory ==
    /\ lastCall.op = "SetDoubleConst" =>
          opt = lastCall.before \o S_D \o lastCall.key \o S_EQ
                \o FormatGeneral(lastCall.value, 6) \o S_SP
    /\ lastCall.op = "SetIntConst" =>
          opt = lastCall.before \o S_D \o lastCall.key \o S_EQ
                \o FormatInt(lastCall.int) \o S_SP

\* devices_[device_id_] is never read past the end: a context that was
\* returned holds a device
NeverUndefined == pc # "undefined"

====
